---- MODULE Spec2Model ----
(***************************************************************************)
(* A model of src/core.py: the duration codec, the output-path probe, the *)
(* row scan of process_file, the ordering of the sections and the report  *)
(* renderer of _build_workbook.                                           *)
(*                                                                         *)
(* Text is a sequence of Unicode code points, so that str.lower(),        *)
(* str.upper() and Python's ordering of strings (by code point) are what  *)
(* the interpreter computes.                                               *)
(***************************************************************************)
EXTENDS Integers, Sequences, FiniteSets, TLC

VARIABLES
    pc,             \* position of the entry point being run
    value,          \* parse_duration: its argument
    td,             \* parse_duration: its outcome
    text,           \* format_duration: its result
    files,          \* the paths that exist: 0 is the path, i is "stem (i)suffix"
    i,              \* ensure_unique_path: the loop counter
    returned,       \* the paths ensure_unique_path has returned, in call order
    scan,           \* process_file: its locals results, current_model and
                    \* period_date, the exception in flight (exc) and, for
                    \* the record, what flushed each section (closed)
    r,              \* process_file: rows read so far
    row,            \* process_file: the row read last
    headers,        \* the header texts of the rows read so far, in order
    sheet,          \* _build_workbook: the data rows of out_ws
    merged,         \* _build_workbook: the merged ranges of out_ws
    start_row,      \* _build_workbook: start_row of the merge loop
    current_group,  \* _build_workbook: current_group of the merge loop
    r_merge,        \* _build_workbook: r of the merge loop
    widths          \* _build_workbook: the column widths of out_ws

durVars    == <<value, td, text>>
pathVars   == <<files, i, returned>>
scanVars   == <<scan, r, row, headers>>
renderVars == <<sheet, merged, start_row, current_group, r_merge, widths>>
vars       == <<pc, durVars, pathVars, scanVars, renderVars>>

\* None where a text may stand, None where a record may stand, and "no
\* exception"
None == <<-1>>

NoneRecord == [none |-> TRUE]

NoExc == "none"

(***************************************************************************)
(* Text helpers: the str methods the code calls.                           *)
(***************************************************************************)

\* str.isspace() of one character: space, \t \n \v \f \r, no-break space
IsSpace(c) == c \in {32, 9, 10, 11, 12, 13, 160}

\* a decimal digit 0..9
IsDigit(c) == c \in 48..57

\* str.lower() of one character: Latin, Cyrillic, and the letter IO
LowerChar(c) ==
    IF c \in 65..90 \/ c \in 1040..1071 THEN c + 32
    ELSE IF c = 1025 THEN 1105
    ELSE c

\* str.upper() of one character
UpperChar(c) ==
    IF c \in 97..122 \/ c \in 1072..1103 THEN c - 32
    ELSE IF c = 1105 THEN 1025
    ELSE c

Lower(s) == [k \in 1..Len(s) |-> LowerChar(s[k])]

Upper(s) == [k \in 1..Len(s) |-> UpperChar(s[k])]

RECURSIVE LStrip(_)
LStrip(s) == IF s # <<>> /\ IsSpace(Head(s)) THEN LStrip(Tail(s)) ELSE s

RECURSIVE RStrip(_)
RStrip(s) ==
    IF s # <<>> /\ IsSpace(s[Len(s)]) THEN RStrip(SubSeq(s, 1, Len(s) - 1)) ELSE s

\* str.strip()
Strip(s) == RStrip(LStrip(s))

\* the index of the first sep in s, 0 when there is none
RECURSIVE Find(_, _, _)
Find(s, sep, from) ==
    IF from > Len(s) THEN 0
    ELSE IF s[from] = sep THEN from
    ELSE Find(s, sep, from + 1)

\* str.split(sep) for a one-character separator
RECURSIVE Split(_, _)
Split(s, sep) ==
    LET k == Find(s, sep, 1)
    IN  IF k = 0 THEN <<s>>
        ELSE <<SubSeq(s, 1, k - 1)>> \o Split(SubSeq(s, k + 1, Len(s)), sep)

\* the number a run of decimal digits denotes (0 for the empty run)
RECURSIVE DigitsValue(_)
DigitsValue(s) ==
    IF s = <<>> THEN 0
    ELSE 10 * DigitsValue(SubSeq(s, 1, Len(s) - 1)) + (s[Len(s)] - 48)

AllDigits(s) == \A k \in 1..Len(s) : IsDigit(s[k])

\* Python's comparison a < b of two strings: by code point, a prefix first
RECURSIVE StrLess(_, _)
StrLess(a, b) ==
    IF b = <<>> THEN FALSE
    ELSE IF a = <<>> THEN TRUE
    ELSE IF Head(a) # Head(b) THEN Head(a) < Head(b)
    ELSE StrLess(Tail(a), Tail(b))

(***************************************************************************)
(* The duration codec.                                                     *)
(***************************************************************************)

\* int(float(p)) for p without an exponent or an underscore: the integer,
\* or the exception raised.  float() strips p, reads "inf", "infinity" and
\* "nan" in any case, and int() truncates toward zero; int() of a NaN is a
\* ValueError, of an infinity an OverflowError.
IntOfFloat(p) ==
    LET t      == Strip(p)
        signed == t # <<>> /\ Head(t) \in {43, 45}
        body   == Lower(IF signed THEN Tail(t) ELSE t)
        sign   == IF signed /\ Head(t) = 45 THEN -1 ELSE 1
        dot    == Find(body, 46, 1)
        whole  == IF dot = 0 THEN body ELSE SubSeq(body, 1, dot - 1)
        frac   == IF dot = 0 THEN <<>> ELSE SubSeq(body, dot + 1, Len(body))
    IN  IF body \in {<<105, 110, 102>>, <<105, 110, 102, 105, 110, 105, 116, 121>>}
        THEN [exc |-> "OverflowError"]
        ELSE IF body = <<110, 97, 110>>
        THEN [exc |-> "ValueError"]
        ELSE IF AllDigits(whole) /\ AllDigits(frac) /\ Len(whole) + Len(frac) > 0
        THEN [exc |-> NoExc, int |-> sign * DigitsValue(whole)]
        ELSE [exc |-> "ValueError"]

\* the generator of line 50, consumed in order: the first part that raises
\* decides the exception
RECURSIVE IntsOf(_)
IntsOf(parts) ==
    IF parts = <<>> THEN [exc |-> NoExc, ints |-> <<>>]
    ELSE LET first == IntOfFloat(Head(parts))
         IN  IF first.exc # NoExc THEN [exc |-> first.exc]
             ELSE LET rest == IntsOf(Tail(parts))
                  IN  IF rest.exc # NoExc THEN rest
                      ELSE [exc |-> NoExc, ints |-> <<first.int>> \o rest.ints]

\* parse_duration(value): the timedelta in whole seconds, or the exception
\* that leaves the function
parse_duration(v) ==
    IF v = None THEN [exc |-> NoExc, seconds |-> 0]
    ELSE LET parts == Split(Strip(v), 58)
         IN  IF Len(parts) # 3 THEN [exc |-> NoExc, seconds |-> 0]
             ELSE LET got == IntsOf(parts)
                  IN  IF got.exc = "ValueError" THEN [exc |-> NoExc, seconds |-> 0]
                      ELSE IF got.exc # NoExc THEN [exc |-> got.exc]
                      ELSE [exc |-> NoExc,
                            seconds |-> 3600 * got.ints[1] + 60 * got.ints[2] + got.ints[3]]

\* str(n) for n >= 0
RECURSIVE DecimalOf(_)
DecimalOf(n) ==
    IF n < 10 THEN <<48 + n>> ELSE DecimalOf(n \div 10) \o <<48 + (n % 10)>>

\* f"{n:02d}": the sign counts toward the width
Pad2(n) ==
    IF n < 0 THEN <<45>> \o DecimalOf(-n)
    ELSE IF n < 10 THEN <<48>> \o DecimalOf(n)
    ELSE DecimalOf(n)

\* a mutant of format_duration: the hours wrap at 100
format_duration_wrap(seconds) ==
    Pad2((seconds \div 3600) % 100) \o <<58>>
        \o Pad2((seconds % 3600) \div 60) \o <<58>> \o Pad2(seconds % 60)

\* format_duration(td), td in whole seconds: // and % round toward minus
\* infinity, as \div and % do
format_duration(seconds) ==
    Pad2(seconds \div 3600) \o <<58>>
        \o Pad2((seconds % 3600) \div 60) \o <<58>> \o Pad2(seconds % 60)

(***************************************************************************)
(* The duration codec on its own: parse_duration, then format_duration.   *)
(***************************************************************************)

MaxHours == 101

\* "HH:MM:SS" texts with non-negative parts, minutes and seconds below 60
HourSamples == {0, 9, 10, 24, 99, 100, MaxHours}

MinSecSamples == {0, 9, 10, 59}

Styles == {"plain", "padded", "fraction", "spaced"}

\* the text of a part in a style; a fraction is ".9", a spaced part " n "
PartText(n, style) ==
    CASE style = "plain"    -> DecimalOf(n)
      [] style = "padded"   -> IF n < 10 THEN <<48, 48 + n>> ELSE DecimalOf(n)
      [] style = "fraction" -> DecimalOf(n) \o <<46, 57>>
      [] style = "spaced"   -> <<32>> \o DecimalOf(n) \o <<32>>

ValidText(h, m, s, style) ==
    PartText(h, style) \o <<58>> \o PartText(m, style) \o <<58>> \o PartText(s, style)

ValidDurations ==
    {ValidText(h, m, s, style) :
        h \in HourSamples, m \in MinSecSamples, s \in MinSecSamples, style \in Styles}

\* minutes or seconds of 60 and more: "00:75:00", "00:00:60", "1:60:60"
CarryDurations ==
    { <<48, 48, 58, 55, 53, 58, 48, 48>>,
      <<48, 48, 58, 48, 48, 58, 54, 48>>,
      <<49, 58, 54, 48, 58, 54, 48>> }

\* None, "", "abc", "1:2", "1:2:3:4", "1:x:3", "::", "nan:0:0", "1:2:",
\* "1,5:0:0"
MalformedDurations ==
    { None,
      <<>>,
      <<97, 98, 99>>,
      <<49, 58, 50>>,
      <<49, 58, 50, 58, 51, 58, 52>>,
      <<49, 58, 120, 58, 51>>,
      <<58, 58>>,
      <<110, 97, 110, 58, 48, 58, 48>>,
      <<49, 58, 50, 58>>,
      <<49, 44, 53, 58, 48, 58, 48>> }

\* "inf:0:0", "0:Infinity:0", "x:inf:0", "inf:x:0"
InfiniteDurations ==
    { <<105, 110, 102, 58, 48, 58, 48>>,
      <<48, 58, 73, 110, 102, 105, 110, 105, 116, 121, 58, 48>>,
      <<120, 58, 105, 110, 102, 58, 48>>,
      <<105, 110, 102, 58, 120, 58, 48>> }

\* "-1:00:00", "0:0:-1", "-0.9:0:0"
NegativeDurations ==
    { <<45, 49, 58, 48, 48, 58, 48, 48>>,
      <<48, 58, 48, 58, 45, 49>>,
      <<45, 48, 46, 57, 58, 48, 58, 48>> }

DurationInputs ==
    ValidDurations \cup CarryDurations \cup MalformedDurations
        \cup InfiniteDurations \cup NegativeDurations

IdleDur == value = None /\ td = NoneRecord /\ text = None

IdlePath == files = {} /\ i = 0 /\ returned = <<>>

\* lines 256-258: the locals before the first row
ScanStart ==
    [results |-> <<>>, current_model |-> NoneRecord, period_date |-> <<>>,
     closed |-> <<>>, exc |-> NoExc]

IdleScan == scan = ScanStart /\ r = 0 /\ row = NoneRecord /\ headers = <<>>

IdleRender ==
    /\ sheet = <<>> /\ merged = {} /\ start_row = 0 /\ current_group = None
    /\ r_merge = 0 /\ widths = <<>>

InitDur ==
    /\ pc = "parse"
    /\ value \in DurationInputs
    /\ td = NoneRecord /\ text = None
    /\ IdlePath /\ IdleScan /\ IdleRender

\* the call parse_duration(value)
ParseDuration ==
    /\ pc = "parse"
    /\ td' = parse_duration(value)
    /\ pc' = IF td'.exc # NoExc THEN "raised" ELSE "format"
    /\ UNCHANGED <<value, text, pathVars, scanVars, renderVars>>

\* the call format_duration(td)
FormatDuration ==
    /\ pc = "format"
    /\ text' = format_duration(td.seconds)
    /\ pc' = "formatted"
    /\ UNCHANGED <<value, td, pathVars, scanVars, renderVars>>

NextDur == ParseDuration \/ FormatDuration

SpecDur == InitDur /\ [][NextDur]_vars

\* C6: for a valid "HH:MM:SS" text with non-negative integer-like parts
\* (minutes and seconds below 60), whatever its padding, a fraction or the
\* blanks around a part, format_duration(parse_duration(s)) is the three
\* fields h, m, s in decimal, each zero-padded to two digits and no more;
\* hours of 100 and more keep all their digits.
C6_RoundTrip ==
    pc = "formatted" =>
    \A h \in HourSamples, m \in MinSecSamples, s \in MinSecSamples, style \in Styles :
        value = ValidText(h, m, s, style) =>
            LET fields == Split(text, 58)
                Canon(f, n) ==
                    /\ AllDigits(f) /\ DigitsValue(f) = n
                    /\ Len(f) >= 2
                    /\ Len(f) > 2 => f[1] # 48
            IN  /\ Len(fields) = 3
                /\ Canon(fields[1], h)
                /\ Canon(fields[2], m)
                /\ Canon(fields[3], s)

\* C6 is reached: "100:09:59.9"-like input, three-digit hours, formatted
C6_Witness ==
    /\ pc = "formatted"
    /\ value = ValidText(100, 9, 59, "fraction")
    /\ text = <<49, 48, 48, 58, 48, 57, 58, 53, 57>>

(***************************************************************************)
(* ensure_unique_path, as process_file uses it: probe, then save.  A path *)
(* is a number: 0 is the path asked for, k >= 1 is "stem (k)suffix" in    *)
(* the same directory.                                                     *)
(***************************************************************************)

MaxFiles == 4

MaxCalls == 3

InitPath ==
    /\ pc = "call"
    /\ files \in SUBSET (0..MaxFiles)
    /\ i = 0 /\ returned = <<>>
    /\ IdleDur /\ IdleScan /\ IdleRender

\* lines 85-90: the path itself when it is free, or the loop is entered
EnsureUniquePath ==
    /\ pc = "call"
    /\ Len(returned) < MaxCalls
    /\ IF 0 \notin files
       THEN /\ returned' = Append(returned, 0)
            /\ pc' = "save"
            /\ i' = i
       ELSE /\ i' = 1
            /\ pc' = "probe"
            /\ returned' = returned
    /\ UNCHANGED <<files, durVars, scanVars, renderVars>>

\* a mutant of Probe: the candidate is returned without looking at it
ProbeUnchecked ==
    /\ pc = "probe"
    /\ returned' = Append(returned, i)
    /\ pc' = "save"
    /\ UNCHANGED <<i, files, durVars, scanVars, renderVars>>

\* lines 91-95: one turn of the loop on the candidate "stem (i)suffix"
Probe ==
    /\ pc = "probe"
    /\ IF i \notin files
       THEN /\ returned' = Append(returned, i)
            /\ pc' = "save"
            /\ i' = i
       ELSE /\ i' = i + 1
            /\ UNCHANGED <<returned, pc>>
    /\ UNCHANGED <<files, durVars, scanVars, renderVars>>

\* line 302: out_wb.save(dest) creates the path returned
Save ==
    /\ pc = "save"
    /\ files' = files \cup {returned[Len(returned)]}
    /\ pc' = "call"
    /\ UNCHANGED <<i, returned, durVars, scanVars, renderVars>>

NextPath == EnsureUniquePath \/ Probe \/ Save

SpecPath == InitPath /\ [][NextPath]_vars

\* C7: the path ensure_unique_path returns does not exist when it returns;
\* it is the path itself when that is free, else the candidate of the
\* smallest free k >= 1.  Over calls each followed by the creation of the
\* path returned, the paths returned are pairwise different, and they are
\* the path, (1), (2), ... when nothing else exists.  The loop counter never
\* passes the number of existing files, so the loop ends.
C7_UniquePath ==
    /\ pc = "save" =>
        LET p == returned[Len(returned)]
        IN  /\ p \notin files
            /\ (0 \notin files) => p = 0
            /\ (0 \in files) => (p >= 1 /\ \A k \in 1..(p - 1) : k \in files)
    /\ \A a, b \in 1..Len(returned) : a # b => returned[a] # returned[b]
    /\ (pc = "call" /\ files = {returned[k] : k \in 1..Len(returned)}) =>
            \A k \in 1..Len(returned) : returned[k] = k - 1
    /\ pc = "probe" => (i >= 1 /\ i <= Cardinality(files))

\* C7 is reached: three calls in an empty directory gave the path, (1), (2)
C7_Witness ==
    /\ pc = "call"
    /\ returned = <<0, 1, 2>>
    /\ files = {0, 1, 2}

(***************************************************************************)
(* The text pattern extractors.  A row is what the extractors that scan   *)
(* every cell return for it (period: _extract_period, model:               *)
(* _extract_model_name, end: _is_section_end) and the stripped texts of   *)
(* its name and duration columns (name_txt, dur_txt).                      *)
(***************************************************************************)

\* the length of the run of blanks of s that starts at from
RECURSIVE SpaceRun(_, _)
SpaceRun(s, from) ==
    IF from <= Len(s) /\ IsSpace(s[from]) THEN 1 + SpaceRun(s, from + 1) ELSE 0

\* the length of the run of digits of s that starts at from
RECURSIVE DigitRun(_, _)
DigitRun(s, from) ==
    IF from <= Len(s) /\ IsDigit(s[from]) THEN 1 + DigitRun(s, from + 1) ELSE 0

\* the length of the run of non-blanks of s that starts at from
RECURSIVE TokenRun(_, _)
TokenRun(s, from) ==
    IF from <= Len(s) /\ ~IsSpace(s[from]) THEN 1 + TokenRun(s, from + 1) ELSE 0

\* POINT_RE tried at position k: the digits matched, None when it fails
PointMatchAt(s, k) ==
    IF k + 4 > Len(s) \/ Lower(SubSeq(s, k, k + 4)) # <<1090, 1086, 1095, 1082, 1072>>
    THEN None
    ELSE LET blanks == SpaceRun(s, k + 5)
             first  == k + 5 + blanks
             digits == DigitRun(s, first)
         IN  IF digits = 0 THEN None ELSE SubSeq(s, first, first + digits - 1)

\* POINT_RE.search(text): the digits of the leftmost match, None without one
RECURSIVE PointSearch(_, _)
PointSearch(s, k) ==
    IF k > Len(s) THEN None
    ELSE IF PointMatchAt(s, k) # None THEN PointMatchAt(s, k)
    ELSE PointSearch(s, k + 1)

\* the index of lines 143-146 for the digits matched
index_of(digits) ==
    IF digits = None THEN None
    ELSE IF 1 <= DigitsValue(digits) /\ DigitsValue(digits) <= 8
    THEN <<DigitsValue(digits)>>
    ELSE None

\* a mutant of extract_point_index: only the first digit is read
extract_point_index_first_digit(txt) ==
    index_of(IF PointSearch(txt, 1) = None THEN None ELSE <<Head(PointSearch(txt, 1))>>)

\* _extract_point_index(text): <<idx>>, or None
extract_point_index(txt) == index_of(PointSearch(txt, 1))

\* the length of the run of digits of s that ends at to
RECURSIVE DigitRunBack(_, _)
DigitRunBack(s, to) ==
    IF to >= 1 /\ IsDigit(s[to]) THEN 1 + DigitRunBack(s, to - 1) ELSE 0

\* where the trailing "(N)" of line 125 starts in name, 0 when it has none
PointsMatchStart(name) ==
    LET t == RStrip(name)
        n == Len(t)
        d == DigitRunBack(t, n - 1)
    IN  IF n >= 3 /\ t[n] = 41 /\ d >= 1 /\ n - 1 - d >= 1 /\ t[n - 1 - d] = 40
        THEN n - 1 - d
        ELSE 0

\* the text re.match(r"(TE|TAN-\d+)", name, re.IGNORECASE) matches at the
\* start of name (the Cyrillic words of line 130), None when it fails
GroupMatch(name) ==
    IF Len(name) >= 2 /\ Lower(SubSeq(name, 1, 2)) = Lower(<<1058, 1069>>)
    THEN SubSeq(name, 1, 2)
    ELSE IF /\ Len(name) >= 5
            /\ Lower(SubSeq(name, 1, 4)) = Lower(<<1058, 1040, 1053, 45>>)
            /\ IsDigit(name[5])
    THEN SubSeq(name, 1, 4 + DigitRun(name, 5))
    ELSE None

\* line 134: re.sub of the leading group, a "-" or ":" and the blanks
StripGroup(name, group) ==
    LET a == LStrip(name)
    IN  IF Len(a) < Len(group) \/ Lower(SubSeq(a, 1, Len(group))) # Lower(group)
        THEN name
        ELSE LET b == LStrip(SubSeq(a, Len(group) + 1, Len(a)))
                 c == IF b # <<>> /\ Head(b) \in {45, 58} THEN Tail(b) ELSE b
             IN  LStrip(c)

\* _parse_model_info(model_name)
parse_model_info(model_name) ==
    LET name0  == Strip(model_name)
        start  == PointsMatchStart(name0)
        total  == IF start = 0 THEN None
                  ELSE <<DigitsValue(SubSeq(RStrip(name0), start + 1, Len(RStrip(name0)) - 1))>>
        name1  == IF start = 0 THEN name0 ELSE RStrip(SubSeq(name0, 1, start - 1))
        gm     == GroupMatch(name1)
        group  == IF gm # None THEN Upper(gm)
                  ELSE IF name1 # <<>> THEN SubSeq(name1, 1, TokenRun(name1, 1))
                  ELSE <<>>
        name2  == IF group # <<>> THEN StripGroup(name1, group) ELSE name1
    IN  [group |-> group, name |-> name2, total_points |-> total]

Points == 1..8

\* _create_empty_result(model_name)
create_empty_result(model_name) ==
    LET info == parse_model_info(model_name)
    IN  [name |-> info.name, group |-> info.group, total_points |-> info.total_points,
         counts |-> [k \in Points |-> 0], sums |-> [k \in Points |-> 0]]

\* line 172
count_point(result, idx) == [result EXCEPT !.counts[idx] = @ + 1]

\* line 173, d being what parse_duration did
add_duration(result, idx, d) ==
    IF d.exc # NoExc THEN [exc |-> d.exc, result |-> result]
    ELSE [exc |-> NoExc, result |-> [result EXCEPT !.sums[idx] = @ + d.seconds]]

\* lines 170-173, point_index being what _extract_point_index returned
update_at(result, point_index, duration_text) ==
    IF point_index = None THEN [exc |-> NoExc, result |-> result]
    ELSE add_duration(count_point(result, point_index[1]), point_index[1],
                      parse_duration(duration_text))

\* _update_point_data(result, point_text, duration_text): the result as the
\* call leaves it, and the exception it raises; line 172 has run when
\* line 173 raises
update_point_data(result, point_text, duration_text) ==
    update_at(result, extract_point_index(point_text), duration_text)

(***************************************************************************)
(* The row scan of process_file.  A scan state st is the locals results,  *)
(* current_model and period_date, with the exception in flight and, for   *)
(* the record, what flushed each section.                                  *)
(***************************************************************************)

\* a mutant of flush_model: current_model is not reset
flush_model_keep(st, why) ==
    IF st.current_model = NoneRecord THEN st
    ELSE [st EXCEPT !.results = Append(@, st.current_model),
                    !.closed = Append(@, why)]

\* flush_model(), lines 260-265
flush_model(st, why) ==
    IF st.current_model = NoneRecord THEN st
    ELSE [st EXCEPT !.results = Append(@, st.current_model),
                    !.closed = Append(@, why),
                    !.current_model = NoneRecord]

\* lines 271-273
step_period(st, rw) ==
    IF rw.period # None THEN [st EXCEPT !.period_date = rw.period] ELSE st

\* line 278
open_model(st, model_name) ==
    [st EXCEPT !.current_model = create_empty_result(model_name)]

\* lines 275-278
step_header(st, rw) ==
    IF rw.model # None THEN open_model(flush_model(st, "header"), rw.model) ELSE st

\* line 283, u being what _update_point_data did
updated(st, u) == [st EXCEPT !.current_model = u.result, !.exc = u.exc]

\* lines 280-283
step_aggregate(st, rw) ==
    IF st.current_model # NoneRecord
    THEN updated(st, update_point_data(st.current_model, rw.name_txt, rw.dur_txt))
    ELSE st

\* lines 285-286, not reached when line 283 raised
step_end(st, rw) ==
    IF st.exc # NoExc THEN st
    ELSE IF rw.end THEN flush_model(st, "end")
    ELSE st

\* a mutant of process_row: the row is aggregated before the header is
\* looked at
process_row_aggregate_first(st, rw) ==
    step_end(step_header(step_aggregate(step_period(st, rw), rw), rw), rw)

\* the body of the loop over the rows, lines 268-286
process_row(st, rw) ==
    step_end(step_aggregate(step_header(step_period(st, rw), rw), rw), rw)

MaxRows == 4

\* the dates "01.11.2026" and "02.11.2026"
Period1 == <<48, 49, 46, 49, 49, 46, 50, 48, 50, 54>>

Period2 == <<48, 50, 46, 49, 49, 46, 50, 48, 50, 54>>

\* the header texts "TE A (3)" and "b", in Cyrillic
HeaderTexts == { <<1058, 1069, 32, 1040, 32, 40, 51, 41>>, <<1073>> }

\* the name texts "Tochka 1", "tochka3", "Tochka x Tochka 08", in Cyrillic:
\* the numbers 1, 3 and 8
Point1 == <<1058, 1086, 1095, 1082, 1072, 32, 49>>

Point3 == <<1090, 1086, 1095, 1082, 1072, 51>>

Point8 ==
    <<1058, 1086, 1095, 1082, 1072, 32, 1093, 32, 1058, 1086, 1095, 1082, 1072, 32, 48, 56>>

\* "Tochka 0", "Tochka 9", "Tochka 12": numbers outside 1..8
Point0 == <<1058, 1086, 1095, 1082, 1072, 32, 48>>

Point9 == <<1058, 1086, 1095, 1082, 1072, 32, 57>>

Point12 == <<1058, 1086, 1095, 1082, 1072, 32, 49, 50>>

\* "" and "Tochka": no number
NoPoint == <<1058, 1086, 1095, 1082, 1072>>

InRange == {Point1, Point3, Point8}

OutOfRange == {Point0, Point9, Point12}

Unmarked == {<<>>, NoPoint}

\* "00:00:05", "abc", "inf:0:0", "-1:00:00"
Dur5 == <<48, 48, 58, 48, 48, 58, 48, 53>>

DurAbc == <<97, 98, 99>>

DurInf == <<105, 110, 102, 58, 48, 58, 48>>

DurNeg == <<45, 49, 58, 48, 48, 58, 48, 48>>

\* the rows of a sheet: header rows, data rows, rows with an odd duration,
\* rows with the period
Rows ==
    [period : {None}, model : HeaderTexts, name_txt : {<<>>, Point1},
     dur_txt : {Dur5}, end : BOOLEAN]
    \cup
    [period : {None}, model : {None}, name_txt : InRange \cup OutOfRange \cup Unmarked,
     dur_txt : {Dur5}, end : {FALSE}]
    \cup
    [period : {None}, model : {None}, name_txt : {<<>>, Point3, Point9},
     dur_txt : {Dur5}, end : {TRUE}]
    \cup
    [period : {None}, model : {None}, name_txt : {Point3},
     dur_txt : {DurAbc, DurInf, DurNeg}, end : {FALSE}]
    \cup
    [period : {None}, model : {None}, name_txt : {Point0},
     dur_txt : {DurInf}, end : {FALSE}]
    \cup
    [period : {Period1, Period2}, model : {None}, name_txt : {<<>>},
     dur_txt : {<<>>}, end : {FALSE}]

InitScan ==
    /\ pc = "scan"
    /\ scan = ScanStart
    /\ r = 0 /\ row = NoneRecord /\ headers = <<>>
    /\ IdleDur /\ IdlePath /\ IdleRender

\* one turn of the loop of line 267 on the next row of the sheet
ReadRow ==
    /\ pc = "scan"
    /\ r < MaxRows
    /\ \E rw \in Rows :
        /\ scan' = process_row(scan, rw)
        /\ row' = rw
        /\ headers' = IF rw.model # None THEN Append(headers, rw.model) ELSE headers
    /\ pc' = IF scan'.exc # NoExc THEN "raised" ELSE "scan"
    /\ r' = r + 1
    /\ UNCHANGED <<durVars, pathVars, renderVars>>

\* the sheet has no more rows: line 288
EndOfInput ==
    /\ pc = "scan"
    /\ scan' = flush_model(scan, "eof")
    /\ pc' = "scanned"
    /\ row' = NoneRecord
    /\ UNCHANGED <<r, headers, durVars, pathVars, renderVars>>

NextScan == ReadRow \/ EndOfInput

SpecScan == InitScan /\ [][NextScan]_vars

(***************************************************************************)
(* Claims about the row scan.                                              *)
(***************************************************************************)

Open == scan.current_model # NoneRecord

Flushed == Len(scan.results)

\* the section a header text opens, as far as the header decides it
SameHeader(section, header) ==
    [group |-> section.group, name |-> section.name,
     total_points |-> section.total_points] = parse_model_info(header)

\* C1: in every state of the scan (also one where a row raised) there is
\* one section per header row read so far, in the order of the rows: the
\* flushed sections are those of the first headers, the open section, if
\* any, is that of the last header, and each flushed section was flushed
\* once.  After a row with the end marker no section is open, after a
\* header row without it one is.  After the end of the input no section is
\* open and results holds one section per header row.
C1_OneSectionPerHeader ==
    /\ Flushed + (IF Open THEN 1 ELSE 0) = Len(headers)
    /\ Len(scan.closed) = Flushed
    /\ \A k \in 1..Flushed : SameHeader(scan.results[k], headers[k])
    /\ Open => SameHeader(scan.current_model, headers[Len(headers)])
    /\ \A k \in 1..Flushed : scan.closed[k] = "header" => k < Len(headers)
    /\ (pc = "scan" /\ row # NoneRecord) => (Open <=> (row.model # None /\ ~row.end)
                                                   \/ (row.model = None /\ ~row.end
                                                       /\ Len(headers) > Flushed))
    /\ pc = "scanned" => (~Open /\ Flushed = Len(headers))

\* C1 is reached: three headers, the first section flushed by the second
\* header, the second by an end marker, the third by the end of the input
C1_Witness ==
    /\ pc = "scanned"
    /\ Flushed = 3
    /\ scan.closed = <<"header", "end", "eof">>
    /\ scan.results[1].counts[1] = 1
    /\ scan.results[2].counts[3] = 1

RECURSIVE SumTo(_, _)
SumTo(f, k) == IF k = 0 THEN 0 ELSE f[k] + SumTo(f, k - 1)

\* the rows a section counted
Counted(section) == SumTo(section.counts, 8)

RECURSIVE CountedIn(_, _)
CountedIn(sections, k) ==
    IF k = 0 THEN 0 ELSE Counted(sections[k]) + CountedIn(sections, k - 1)

\* the rows counted so far by a scan state, over all its sections
CountedBy(st) ==
    CountedIn(st.results, Len(st.results))
        + (IF st.current_model # NoneRecord THEN Counted(st.current_model) ELSE 0)

\* the section the row of a step was aggregated into, if any
Target(after, rw) ==
    IF rw.end THEN after.results[Len(after.results)] ELSE after.current_model

\* what C2 says of one step of the scan that read the row rw
C2_Step(before, after, rw) ==
    LET valid  == rw.name_txt \in InRange
        header == rw.model # None
        opened == before.current_model # NoneRecord
    IN  /\ CountedBy(after) = CountedBy(before) + (IF valid /\ (header \/ opened) THEN 1 ELSE 0)
        /\ header =>
            /\ Counted(Target(after, rw)) = (IF valid THEN 1 ELSE 0)
            /\ opened => after.results[Len(before.results) + 1] = before.current_model
        /\ (~header /\ opened) =>
            Counted(Target(after, rw)) = Counted(before.current_model) + (IF valid THEN 1 ELSE 0)
        /\ (~header /\ ~opened) =>
            (after.results = before.results /\ after.current_model = NoneRecord)

\* C2: a row with a valid index in the name column is counted once, in the
\* section open after the header step of that row, or nowhere when none is:
\* a header row in the section it opens (the section it closes is flushed
\* as it was), a row with the end marker in the section it closes, a row
\* read while no section is open in none.  No step changes a flushed
\* section.
C2_CountedOnce ==
    [][ /\ Len(scan'.results) >= Len(scan.results)
        /\ \A k \in 1..Len(scan.results) : scan'.results[k] = scan.results[k]
        /\ (r' = r + 1 /\ pc' = "scan") => C2_Step(scan, scan', row') ]_vars

\* C2 is reached: a header row with a valid index and the end marker was
\* counted in the section it opened, which the end marker flushed, after
\* it had flushed the section open before it
C2_Witness ==
    /\ pc = "scan"
    /\ row # NoneRecord
    /\ row.model # None /\ row.name_txt \in InRange /\ row.end
    /\ Flushed >= 2
    /\ scan.closed[Flushed - 1] = "header"
    /\ scan.closed[Flushed] = "end"
    /\ Counted(scan.results[Flushed]) = 1
    /\ Counted(scan.results[Flushed - 1]) = 2

\* the number and the seconds the texts of the sheet stand for
NumberOf(name_txt) ==
    CASE name_txt = Point1 -> 1 [] name_txt = Point3 -> 3 [] name_txt = Point8 -> 8

SecondsOf(dur_txt) ==
    CASE dur_txt = Dur5 -> 5 [] dur_txt = DurAbc -> 0 [] dur_txt = DurNeg -> 0 - 3600
      [] dur_txt = <<>> -> 0

\* what C3 says of one step of the scan that read the row rw
C3_Step(before, after, rw) ==
    LET section == IF rw.model # None THEN create_empty_result(rw.model)
                   ELSE before.current_model
    IN  section # NoneRecord =>
            IF rw.name_txt \in InRange
            THEN LET k == NumberOf(rw.name_txt)
                 IN  Target(after, rw) =
                        [section EXCEPT !.counts[k] = @ + 1,
                                        !.sums[k] = @ + SecondsOf(rw.dur_txt)]
            ELSE Target(after, rw) = section

\* C3: a row whose name column holds a number outside 1..8 changes no count
\* and no sum of the open section and raises nothing, whatever its
\* duration column holds, as a row without a number does; a row with the
\* number k in 1..8 adds 1 to counts[k] and the parsed duration to sums[k]
\* and leaves the other indices as they were.
C3_OnlyIndexK ==
    [][ /\ (r' = r + 1 /\ pc' = "scan") => C3_Step(scan, scan', row')
        /\ (r' = r + 1 /\ row'.name_txt \notin InRange) => pc' = "scan" ]_vars

\* C3 is reached: a row "Tochka 9" left the open section, which had counted
\* before, as it was; and a row with 3 was counted under 3 alone
C3_Witness ==
    /\ pc = "scan" /\ Open
    /\ row # NoneRecord
    /\ row.name_txt = Point9 /\ row.model = None
    /\ scan.current_model.counts[3] = 1
    /\ scan.current_model.sums[3] = 5
    /\ Counted(scan.current_model) = 1

\* C4: parse_duration never raises, so no duration text aborts the scan
C4_NeverRaises == pc # "raised"

AllSections ==
    {scan.results[k] : k \in 1..Flushed} \cup (IF Open THEN {scan.current_model} ELSE {})

\* C5: the open section and every flushed one have counts and sums on the
\* keys 1..8, every count a natural number, every sum at least zero
C5_SectionInvariant ==
    \A section \in AllSections :
        /\ DOMAIN section.counts = Points
        /\ DOMAIN section.sums = Points
        /\ \A k \in Points : section.counts[k] \in Nat /\ section.sums[k] >= 0

(***************************************************************************)
(* The ordering of the sections, lines 290-298.                            *)
(***************************************************************************)

\* the group codes "TE", "TAN-1", "TAN-2", "TAN-3", in Cyrillic
GroupTE == <<1058, 1069>>

GroupTAN1 == <<1058, 1040, 1053, 45, 49>>

GroupTAN2 == <<1058, 1040, 1053, 45, 50>>

GroupTAN3 == <<1058, 1040, 1053, 45, 51>>

\* group_order.get(group, 100), line 290 and line 294
group_order(group) ==
    CASE group = GroupTE   -> 0
      [] group = GroupTAN1 -> 1
      [] group = GroupTAN2 -> 2
      [] group = GroupTAN3 -> 3
      [] OTHER             -> 100

\* a mutant of sort_key: the name is compared as it is written
sort_key_case_sensitive(item) ==
    <<group_order(Upper(item.group)), Lower(item.group), item.name>>

\* the key of lines 293-297
sort_key(item) ==
    <<group_order(Upper(item.group)), Lower(item.group), Lower(item.name)>>

\* Python's comparison a < b of two keys, tuples of a number and two texts
key_less(a, b) ==
    IF a[1] # b[1] THEN a[1] < b[1]
    ELSE IF a[2] # b[2] THEN StrLess(a[2], b[2])
    ELSE StrLess(a[3], b[3])

\* item put into a sorted list behind every element that is not greater
RECURSIVE insert_sorted(_, _)
insert_sorted(sorted, item) ==
    IF sorted = <<>> THEN <<item>>
    ELSE IF key_less(sort_key(item), sort_key(Head(sorted)))
    THEN <<item>> \o sorted
    ELSE <<Head(sorted)>> \o insert_sorted(Tail(sorted), item)

\* results.sort(key=...), a stable sort: the elements are put one by one,
\* in their order, each behind its equals
RECURSIVE sort_results(_)
sort_results(items) ==
    IF items = <<>> THEN <<>>
    ELSE insert_sorted(sort_results(SubSeq(items, 1, Len(items) - 1)), items[Len(items)])

MaxSections == 3

\* header texts, in Cyrillic: "TE a", "TE B", "TE b", "TAN-1 v", "tan-2 a",
\* "TAN-3 a", "TAN-4 a", "Kran a", "kran A", "(5)", "(7)"
SortHeaders ==
    { <<1058, 1069, 32, 1072>>,
      <<1058, 1069, 32, 1041>>,
      <<1058, 1069, 32, 1073>>,
      <<1058, 1040, 1053, 45, 49, 32, 1074>>,
      <<1090, 1072, 1085, 45, 50, 32, 1072>>,
      <<1058, 1040, 1053, 45, 51, 32, 1072>>,
      <<1058, 1040, 1053, 45, 52, 32, 1072>>,
      <<1050, 1088, 1072, 1085, 32, 1072>>,
      <<1082, 1088, 1072, 1085, 32, 1040>>,
      <<40, 53, 41>>,
      <<40, 55, 41>> }

SortSections == {create_empty_result(h) : h \in SortHeaders}

\* the lists of at most n elements of S
ListsUpTo(S, n) == UNION {[1..k -> S] : k \in 0..n}

\* process_file after the scan of a sheet whose headers are in SortHeaders
InitSort ==
    /\ pc = "scanned"
    /\ \E sections \in ListsUpTo(SortSections, MaxSections) :
            scan = [ScanStart EXCEPT !.results = sections]
    /\ r = 0 /\ row = NoneRecord /\ headers = <<>>
    /\ IdleDur /\ IdlePath /\ IdleRender

\* lines 292-299: the list is sorted and handed to _build_workbook
Sort ==
    /\ pc = "scanned"
    /\ scan' = [scan EXCEPT !.results = sort_results(@)]
    /\ pc' = "rows"
    /\ UNCHANGED <<r, row, headers, durVars, pathVars, renderVars>>

NextSort == Sort

SpecSort == InitSort /\ [][NextSort]_vars

Orders(n) == {f \in [1..n -> 1..n] : \A a, b \in 1..n : a # b => f[a] # f[b]}

\* the rank the claim gives a group: the four codes, then all the others
Rank(group) ==
    CASE group = GroupTE   -> 1
      [] group = GroupTAN1 -> 2
      [] group = GroupTAN2 -> 3
      [] group = GroupTAN3 -> 4
      [] OTHER             -> 5

\* after is before in the order C8 states; from[k] is where after[k] stood
Ordered(before, after, from) ==
    /\ \A k \in 1..Len(after) : after[k] = before[from[k]]
    /\ \A j, k \in 1..Len(after) :
        j < k =>
            /\ Rank(after[j].group) <= Rank(after[k].group)
            /\ after[j].group = after[k].group =>
                   ~StrLess(Lower(after[k].name), Lower(after[j].name))
            /\ ( /\ Rank(after[j].group) = Rank(after[k].group)
                 /\ Lower(after[j].group) = Lower(after[k].group)
                 /\ Lower(after[j].name) = Lower(after[k].name) ) => from[j] < from[k]

\* C8: the sort leaves the sections of "TE" before those of "TAN-1", those
\* before "TAN-2", those before "TAN-3", those before the sections of every
\* other group; sections of one group by name without regard to case;
\* sections with equal keys in the order the scan met them.  The list
\* sorted is a permutation of the list scanned.
C8_SortedStable ==
    [][ (pc = "scanned" /\ pc' = "rows") =>
            /\ Len(scan'.results) = Len(scan.results)
            /\ \E from \in Orders(Len(scan.results)) :
                    Ordered(scan.results, scan'.results, from) ]_vars

\* C8 is reached: "kran A", "TE b", "TE B" came out as "TE b", "TE B",
\* "kran A"; the two "TE" sections have equal keys and kept their order
C8_Witness ==
    /\ pc = "rows"
    /\ scan.results =
         << create_empty_result(<<1058, 1069, 32, 1073>>),
            create_empty_result(<<1058, 1069, 32, 1041>>),
            create_empty_result(<<1082, 1088, 1072, 1085, 32, 1040>>) >>

(***************************************************************************)
(* The report renderer, _build_workbook.  sheet holds the data rows of    *)
(* out_ws: sheet[k] is row k + 1 of the worksheet, row 1 being the header *)
(* row.  A merged range is <<first row, last row>> of column 2.            *)
(***************************************************************************)

\* the sentinels "---" and "net" (Cyrillic) of lines 214 and 216
NoPass == <<45, 45, 45>>

ZeroDuration == <<1085, 1077, 1090>>

\* a mutant of render_point: the duration is looked at before the count
render_point_duration_first(count, seconds) ==
    IF seconds = 0 THEN ZeroDuration
    ELSE IF count = 0 THEN NoPass
    ELSE <<40>> \o DecimalOf(count) \o <<41, 32, 47, 32>> \o format_duration(seconds)

\* lines 211-219: the value of a checkpoint cell
render_point(count, seconds) ==
    IF count = 0 THEN NoPass
    ELSE IF seconds = 0 THEN ZeroDuration
    ELSE <<40>> \o DecimalOf(count) \o <<41, 32, 47, 32>> \o format_duration(seconds)

\* line 229: the fill of a checkpoint cell
point_fill(cell) == IF cell \in {ZeroDuration, NoPass} THEN "FILL_RED" ELSE "FILL_GREEN"

\* line 208: result.total_points or ""
total_points_cell(total_points) ==
    IF total_points = None \/ total_points = <<0>> THEN <<>> ELSE DecimalOf(total_points[1])

\* lines 207-229: the row of a section, its cells and their fills
render_line(result, line_no, date) ==
    [ line_no      |-> line_no,
      group        |-> result.group,
      name         |-> result.name,
      total_points |-> total_points_cell(result.total_points),
      date         |-> date,
      points       |-> [p \in Points |-> render_point(result.counts[p], result.sums[p])],
      fills        |-> [c \in 1..13 |->
                          IF c < 6 THEN "FILL_BODY"
                          ELSE point_fill(render_point(result.counts[c - 5],
                                                       result.sums[c - 5]))] ]

\* out_ws.max_row
max_row == Len(sheet) + 1

\* the truth value of current_group in lines 238 and 242
Truthy(group) == group # None /\ group # <<>>

\* the larger of two numbers
Max(a, b) == IF a > b THEN a ELSE b

\* the longest len(str(val)) among the first k rows of the sheet, in a column
\* that holds the field cell(_) of a row
RECURSIVE LongestName(_)
LongestName(k) == IF k = 0 THEN 0 ELSE Max(Len(sheet[k].name), LongestName(k - 1))

RECURSIVE LongestGroup(_)
LongestGroup(k) == IF k = 0 THEN 0 ELSE Max(Len(sheet[k].group), LongestGroup(k - 1))

RECURSIVE LongestTotal(_)
LongestTotal(k) == IF k = 0 THEN 0 ELSE Max(Len(sheet[k].total_points), LongestTotal(k - 1))

RECURSIVE LongestDate(_)
LongestDate(k) == IF k = 0 THEN 0 ELSE Max(Len(sheet[k].date), LongestDate(k - 1))

RECURSIVE LongestPoint(_, _)
LongestPoint(k, p) ==
    IF k = 0 THEN 0 ELSE Max(Len(sheet[k].points[p]), LongestPoint(k - 1, p))

\* _auto_width: the headers of line 195 are 5, 9, 16, 11, 4 and 7 long
auto_width ==
    [c \in 1..13 |->
        LET longest ==
                CASE c = 1 -> Max(5, Len(DecimalOf(Len(sheet))))
                  [] c = 2 -> Max(9, LongestGroup(Len(sheet)))
                  [] c = 3 -> Max(16, LongestName(Len(sheet)))
                  [] c = 4 -> Max(11, LongestTotal(Len(sheet)))
                  [] c = 5 -> Max(4, LongestDate(Len(sheet)))
                  [] OTHER -> Max(7, LongestPoint(Len(sheet), c - 5))
        IN  IF longest + 2 < 40 THEN longest + 2 ELSE 40]

MaxSheetRows == 3

\* header texts, in Cyrillic: "TE a", "TAN-1 v", "Kran a", "(5)"
RenderHeaders ==
    { <<1058, 1069, 32, 1072>>,
      <<1058, 1040, 1053, 45, 49, 32, 1074>>,
      <<1050, 1088, 1072, 1085, 32, 1072>>,
      <<40, 53, 41>> }

\* what a scan can leave under the checkpoints 5 and 8: no pass; 2 passes
\* of no duration and 1 pass of 100 hours; 3 passes of 125 seconds; 1 pass
\* of "-1:00:00" and 12 passes of 59 seconds
PointPatterns ==
    { [c5 |-> 0, s5 |-> 0, c8 |-> 0, s8 |-> 0],
      [c5 |-> 2, s5 |-> 0, c8 |-> 1, s8 |-> 360000],
      [c5 |-> 3, s5 |-> 125, c8 |-> 0, s8 |-> 0],
      [c5 |-> 1, s5 |-> 0 - 3600, c8 |-> 12, s8 |-> 59] }

WithPoints(section, pattern) ==
    [section EXCEPT !.counts[5] = pattern.c5, !.sums[5] = pattern.s5,
                    !.counts[8] = pattern.c8, !.sums[8] = pattern.s8]

RenderSections ==
    {WithPoints(create_empty_result(h), pattern) : h \in RenderHeaders, pattern \in PointPatterns}

\* _build_workbook is called with the sorted list and the period, line 299
InitRender ==
    /\ pc = "rows"
    /\ \E sections \in ListsUpTo(RenderSections, MaxSheetRows), date \in {<<>>, Period1} :
            /\ sections = sort_results(sections)
            /\ scan = [ScanStart EXCEPT !.results = sections, !.period_date = date]
    /\ r = 0 /\ row = NoneRecord /\ headers = <<>>
    /\ IdleDur /\ IdlePath /\ IdleRender

\* one turn of the loop of line 206
AppendRow ==
    /\ pc = "rows"
    /\ Len(sheet) < Len(scan.results)
    /\ sheet' = Append(sheet, render_line(scan.results[Len(sheet) + 1], Len(sheet) + 1,
                                          scan.period_date))
    /\ UNCHANGED <<pc, merged, start_row, current_group, r_merge, widths,
                   durVars, pathVars, scanVars>>

\* lines 232-234, when the loop of line 206 has ended
MergeStart ==
    /\ pc = "rows"
    /\ Len(sheet) = Len(scan.results)
    /\ start_row' = 2
    /\ current_group' = IF max_row >= 2 THEN sheet[1].group ELSE None
    /\ r_merge' = 3
    /\ pc' = "merge"
    /\ UNCHANGED <<sheet, merged, widths, durVars, pathVars, scanVars>>

\* one turn of the loop of line 235
MergeTurn ==
    /\ pc = "merge"
    /\ r_merge <= max_row
    /\ IF sheet[r_merge - 1].group # current_group
       THEN /\ merged' = IF Truthy(current_group) /\ r_merge - start_row > 1
                         THEN merged \cup {<<start_row, r_merge - 1>>}
                         ELSE merged
            /\ start_row' = r_merge
            /\ current_group' = sheet[r_merge - 1].group
       ELSE UNCHANGED <<merged, start_row, current_group>>
    /\ r_merge' = r_merge + 1
    /\ UNCHANGED <<pc, sheet, widths, durVars, pathVars, scanVars>>

\* lines 242-246, when the loop of line 235 has ended
MergeLast ==
    /\ pc = "merge"
    /\ r_merge > max_row
    /\ merged' = IF Truthy(current_group) /\ max_row - start_row + 1 > 1
                 THEN merged \cup {<<start_row, max_row>>}
                 ELSE merged
    /\ widths' = auto_width
    /\ pc' = "built"
    /\ UNCHANGED <<sheet, start_row, current_group, r_merge, durVars, pathVars, scanVars>>

NextRender == AppendRow \/ MergeStart \/ MergeTurn \/ MergeLast

SpecRender == InitRender /\ [][NextRender]_vars

\* the text of a whole number, with a "-" when it is negative, of at
\* least two characters
SignedField(f, n) ==
    IF n < 0 THEN /\ Len(f) >= 2 /\ f[1] = 45
                  /\ AllDigits(Tail(f)) /\ DigitsValue(Tail(f)) = 0 - n
    ELSE /\ Len(f) >= 2 /\ AllDigits(f) /\ DigitsValue(f) = n
         /\ Len(f) > 2 => f[1] # 48

\* cell reads "(count) / H:MM:SS", the three fields making up seconds
IsPair(cell, count, seconds) ==
    LET close == Find(cell, 41, 1)
        dur   == Split(SubSeq(cell, close + 4, Len(cell)), 58)
    IN  /\ close > 2 /\ cell[1] = 40
        /\ AllDigits(SubSeq(cell, 2, close - 1))
        /\ DigitsValue(SubSeq(cell, 2, close - 1)) = count
        /\ Len(cell) > close + 3
        /\ SubSeq(cell, close + 1, close + 3) = <<32, 47, 32>>
        /\ Len(dur) = 3
        /\ Len(dur[2]) = 2 /\ AllDigits(dur[2]) /\ DigitsValue(dur[2]) < 60
        /\ Len(dur[3]) = 2 /\ AllDigits(dur[3]) /\ DigitsValue(dur[3]) < 60
        /\ SignedField(dur[1], (seconds - 60 * DigitsValue(dur[2]) - DigitsValue(dur[3])) \div 3600)
        /\ (seconds - 60 * DigitsValue(dur[2]) - DigitsValue(dur[3])) % 3600 = 0

\* C9: the cell of a section under a checkpoint is "---" when the count is
\* 0, "net" when the count is above 0 and the summed duration zero, else
\* "(count) / HH:MM:SS" of the summed duration (hours of as many digits as
\* they need, with their sign); 3 passes of 125 seconds give
\* "(3) / 00:02:05".  The fill is green exactly for a pair, red exactly for
\* a sentinel.
C9_PointCell ==
    \A k \in 1..Len(sheet), p \in Points :
        LET count   == scan.results[k].counts[p]
            seconds == scan.results[k].sums[p]
            cell    == sheet[k].points[p]
            fill    == sheet[k].fills[5 + p]
        IN  /\ count = 0 => (cell = NoPass /\ fill = "FILL_RED")
            /\ (count > 0 /\ seconds = 0) => (cell = ZeroDuration /\ fill = "FILL_RED")
            /\ (count > 0 /\ seconds # 0) =>
                    (IsPair(cell, count, seconds) /\ fill = "FILL_GREEN")
            /\ (count = 3 /\ seconds = 125) =>
                    cell = <<40, 51, 41, 32, 47, 32, 48, 48, 58, 48, 50, 58, 48, 53>>
            /\ fill \in {"FILL_RED", "FILL_GREEN"}
            /\ fill = "FILL_RED" <=> cell \in {NoPass, ZeroDuration}

\* C9 is reached: a row with "(3) / 00:02:05", one with "net" and "---"
C9_Witness ==
    /\ pc = "built"
    /\ \E j, k \in 1..Len(sheet) :
        /\ sheet[j].points[5] = <<40, 51, 41, 32, 47, 32, 48, 48, 58, 48, 50, 58, 48, 53>>
        /\ sheet[j].fills[10] = "FILL_GREEN"
        /\ sheet[k].points[5] = ZeroDuration
        /\ sheet[k].fills[10] = "FILL_RED"
        /\ sheet[k].points[1] = NoPass

\* the data rows a..b are a maximal run of one group
MaximalRun(a, b) ==
    /\ \A k \in a..b : sheet[k].group = sheet[a].group
    /\ a > 1 => sheet[a - 1].group # sheet[a].group
    /\ b < Len(sheet) => sheet[b + 1].group # sheet[a].group

\* C10: in the report built, the merged ranges are the maximal runs of two
\* and more data rows of one group, whatever the group, the empty one
\* included: each such run is one merged range, and nothing else is merged
C10_RunsMerged ==
    pc = "built" =>
        merged = { <<a + 1, b + 1>> : <<a, b>> \in
                    { ab \in (1..Len(sheet)) \X (1..Len(sheet)) :
                        ab[1] < ab[2] /\ MaximalRun(ab[1], ab[2]) } }

(***************************************************************************)
(* process_file from the first row to the workbook built.                 *)
(***************************************************************************)

Init == InitScan

Next == NextScan \/ NextSort \/ NextRender

Spec == Init /\ [][Next]_vars

====
